---------------------------- MODULE Spec2Model ----------------------------
(***************************************************************************)
(* A model of chrispengcn/hugo-crawler: crawler-json.py, the per-URL       *)
(* ingestion pipeline (configuration, completion ledger, fetch, field      *)
(* extraction, image localization, Markdown rendering, main loop).         *)
(*                                                                         *)
(* Strings that the code transforms character by character (titles, slugs) *)
(* are sequences of one-character strings.  URLs are records               *)
(* [host, path], path a sequence of segments.  The filesystem under        *)
(* project_root is the variables urlFile, ledger, docs and images.         *)
(***************************************************************************)
EXTENDS Integers, Sequences, FiniteSets, TLC

\* ------------------------------------------------------------------ bounds
\* Longest tail of a generated title after its padding.
MaxTail == 3

\* Truncation limit of sanitize_filename: [:100].
MaxSlugLen == 100

Min(a, b) == IF a < b THEN a ELSE b

\* ------------------------------------------------- sanitize_filename (137-150)
\* The characters the title inputs are drawn from: lower and upper case
\* letters, a digit, the underscore, the dash, the space, a tab and a
\* punctuation mark.
Alphabet == {"a", "B", "7", "_", "-", " ", "\t", "!"}

\* \w of the regular expression over this alphabet: letters, digits, "_".
IsWordChar(c) == c \in {"a", "b", "B", "7", "_"}

\* str.lower() on one character.
LowerChar(c) == IF c = "B" THEN "b" ELSE c

\* name.replace(' ', '-')
ReplaceSpaces(s) == [i \in 1..Len(s) |-> IF s[i] = " " THEN "-" ELSE s[i]]

\* re.sub(r'[^\w\-]', '', s)
KeepWordOrDash(c) == IsWordChar(c) \/ c = "-"

RemoveSpecial(s) == SelectSeq(s, KeepWordOrDash)

\* re.sub(r'-+', '-', s): a dash that follows a dash is dropped.
WithPrevious(s) == [i \in 1..Len(s) |-> <<s[i], IF i > 1 THEN s[i - 1] ELSE "">>]

NotRepeatedDash(p) == ~(p[1] = "-" /\ p[2] = "-")

CollapseDashes(s) ==
    LET kept == SelectSeq(WithPrevious(s), NotRepeatedDash)
    IN  [i \in 1..Len(kept) |-> kept[i][1]]

\* str.lower()
LowerStr(s) == [i \in 1..Len(s) |-> LowerChar(s[i])]

\* s.strip(chars): from the first to the last character outside chars.
Strip(s, chars) ==
    LET keep == {i \in 1..Len(s) : s[i] \notin chars}
    IN  IF keep = {} THEN <<>>
        ELSE SubSeq(s, CHOOSE i \in keep : \A j \in keep : i <= j,
                       CHOOSE i \in keep : \A j \in keep : j <= i)

\* str.strip('-')
StripDash(s) == Strip(s, {"-"})

\* s[:n]
Truncate(s, n) == SubSeq(s, 1, Min(Len(s), n))

sanitize_filename(name) ==
    Truncate(
        StripDash(LowerStr(CollapseDashes(RemoveSpecial(ReplaceSpaces(name))))),
        MaxSlugLen)

\* ---------------------------------------------------------- title inputs
RECURSIVE SeqsUpTo(_, _)
SeqsUpTo(S, n) ==
    IF n = 0 THEN {<<>>}
    ELSE LET shorter == SeqsUpTo(S, n - 1)
         IN  shorter \cup {Append(s, c) : s \in {t \in shorter : Len(t) = n - 1}, c \in S}

Pad(n) == [i \in 1..n |-> "a"]

\* A padding that brings the cleaned title to the truncation limit.
LongPad == MaxSlugLen - 2

\* Titles: a short tail over the alphabet, alone or after a long padding.
Titles == {Pad(n) \o t : n \in {0, LongPad}, t \in SeqsUpTo(Alphabet, MaxTail)}


\* ------------------------------------------------------------------ values
\* A Python value of the pipeline: None, a str, or a str holding HTML (the
\* sequence of the src values of its <img> tags, in document order).
NoneVal == [kind |-> "none"]

Str(chars) == [kind |-> "str", chars |-> chars]

Html(imgs) == [kind |-> "html", imgs |-> imgs]

\* Python truthiness of a value: `not v` is Falsy(v).
Falsy(v) ==
    \/ v.kind = "none"
    \/ v.kind = "str" /\ Len(v.chars) = 0

\* --------------------------------------------------------------------- URLs
U1 == [host |-> "a.example", path |-> <<"x", "one">>]

U2 == [host |-> "b.example", path |-> <<"two">>]

\* The universe of page URLs a URL list may name.
URLS == {U1, U2}

\* Where a fetch of a URL may end after HTTP redirects (response.url).
Redirected(u) == [host |-> "r.example", path |-> u.path]

FinalUrls(u) == {u, Redirected(u)}

\* ------------------------------------------------------- image references
\* An <img> src value.  A remote reference is absolute (has a scheme) or
\* relative, rooted (begins with "/") or not, and has path segments and
\* possibly a query string.
Remote(abs, host, rooted, path, query) ==
    [kind |-> "remote", abs |-> abs, host |-> host, rooted |-> rooted,
     path |-> path, query |-> query]

\* "/p.png"
RelP == Remote(FALSE, "", TRUE, <<"p.png">>, FALSE)

\* "http://cdn.example/img/p.png?v=2"
AbsP == Remote(TRUE, "cdn.example", TRUE, <<"img", "p.png">>, TRUE)

\* An <img> without a src attribute: img.get('src') is None.
NoSrc == [kind |-> "nosrc"]

\* A src rewritten to /static/images/<name> (line 208).
LocalSrc(name) == [kind |-> "local", name |-> name]

\* The <img> lists of the content elements the pages are drawn from.
ImgLists == {<<RelP, AbsP>>}

\* urllib.parse.urljoin(base, ref), as an absolute URL [host, path].
urljoin(base, ref) ==
    IF ref.abs THEN [host |-> ref.host, path |-> ref.path]
    ELSE IF ref.rooted THEN [host |-> base.host, path |-> ref.path]
    ELSE [host |-> base.host,
          path |-> SubSeq(base.path, 1, Len(base.path) - 1) \o ref.path]

\* os.path.basename(image_url.split('?')[0]): the last path segment.
Basename(u) == IF Len(u.path) = 0 THEN "" ELSE u.path[Len(u.path)]

\* '.' in image_name, over the segments used here.
HasDot(seg) == seg \in {"p.png"}

\* --------------------------------------------------------------- the pages
\* A page maps each XPath of the configurations to the first node it
\* selects, or to NoMatch.  An element node has its text and its <img>s.
NoMatch == [node |-> "none"]

Element(text, imgs) == [node |-> "element", text |-> text, imgs |-> imgs]

T1 == <<"B", "7", " ", "a", "!">>

D1 == <<"2024-01-02">>

TitleNodes == {NoMatch, Element(<<>>, <<>>), Element(T1, <<>>)}

ContentNodes == {NoMatch} \cup {Element(<<"a">>, l) : l \in ImgLists}

TimeNodes == {NoMatch, Element(D1, <<>>)}

Pages ==
    {[h1 |-> t, article |-> c, time |-> d, img |-> Element(<<>>, <<RelP>>)] :
        t \in TitleNodes, c \in ContentNodes, d \in TimeNodes}

\* tree.xpath(xpath) on a page: the first match.
Select(page, xpath) ==
    CASE xpath = "//h1" -> page.h1
      [] xpath = "//article" -> page.article
      [] xpath = "//time" -> page.time
      [] xpath = "//img" -> page.img
      [] OTHER -> NoMatch

\* ------------------------------------------------ configuration (17-48)
\* One entry of config['fields']: the field's name and its rule, whose keys
\* 'xpath' and 'attribute' may each be missing.
Rule(name, has_xpath, xpath, has_attribute, attribute) ==
    [name |-> name, has_xpath |-> has_xpath, xpath |-> xpath,
     has_attribute |-> has_attribute, attribute |-> attribute]

TitleRule == Rule("title", TRUE, "//h1", TRUE, "text")

ContentRule == Rule("content", TRUE, "//article", TRUE, "html")

DateRule == Rule("date", TRUE, "//time", TRUE, "text")

CoverRule == Rule("cover", TRUE, "//img", TRUE, "src")

\* A configuration file: absent, not JSON, or a JSON object that may lack
\* project_root, may lack fields, or hold a fields value that is no dict.
JsonCfg(has_root, has_fields, fields_is_dict, rules) ==
    [file |-> "json", has_root |-> has_root, has_fields |-> has_fields,
     fields_is_dict |-> fields_is_dict, rules |-> rules]

CfgAbsent == [file |-> "absent"]

CfgMalformed == [file |-> "malformed"]

CfgGood == JsonCfg(TRUE, TRUE, TRUE, <<TitleRule, ContentRule, DateRule, CoverRule>>)

CfgNoRoot == JsonCfg(FALSE, TRUE, TRUE, <<TitleRule, ContentRule>>)

CfgNoFields == JsonCfg(TRUE, FALSE, FALSE, <<>>)

CfgFieldsNotDict == JsonCfg(TRUE, TRUE, FALSE, <<>>)

CfgNoTitle == JsonCfg(TRUE, TRUE, TRUE, <<ContentRule, DateRule>>)

CfgNoContent == JsonCfg(TRUE, TRUE, TRUE, <<TitleRule>>)

\* A title entry without its 'xpath' key.
CfgTitleNoXpath ==
    JsonCfg(TRUE, TRUE, TRUE, <<Rule("title", FALSE, "", TRUE, "text"), ContentRule>>)

ConfigFiles ==
    {CfgAbsent, CfgMalformed, CfgGood, CfgNoRoot, CfgNoFields, CfgFieldsNotDict,
     CfgNoTitle, CfgNoContent, CfgTitleNoXpath}

FieldNames(rules) == {rules[i].name : i \in 1..Len(rules)}

\* The fields every configuration must name (line 33).
required_fields == {"title", "content"}

\* The mutant of load_config that does not look at the required fields.
load_config_unchecked(cfg) ==
    IF cfg.file # "json" THEN [ok |-> FALSE]
    ELSE IF ~cfg.has_root THEN [ok |-> FALSE]
    ELSE IF ~cfg.has_fields \/ ~cfg.fields_is_dict THEN [ok |-> FALSE]
    ELSE [ok |-> TRUE, fields |-> cfg.rules]

\* load_config: [ok |-> FALSE] when it raises, else the configuration.
load_config(cfg) ==
    IF cfg.file # "json" THEN [ok |-> FALSE]
    ELSE IF ~cfg.has_root THEN [ok |-> FALSE]
    ELSE IF ~cfg.has_fields \/ ~cfg.fields_is_dict THEN [ok |-> FALSE]
    ELSE IF \E f \in required_fields : f \notin FieldNames(cfg.rules) THEN [ok |-> FALSE]
    ELSE [ok |-> TRUE, fields |-> cfg.rules]

\* --------------------------------------------------- extract_field (102-135)
\* str.strip() and get_text(strip=True) of a single text.
StripWs(s) == Strip(s, {" ", "\t"})

\* element_soup.get(attribute, None): element_soup is the BeautifulSoup
\* document built from the element's markup, and the document object itself
\* carries no attributes.
SoupGet(element, attribute) == NoneVal

extract_field(html_content, xpath, attribute, base_url) ==
    LET element == Select(html_content, xpath)
    IN  IF element.node = "none" THEN NoneVal
        ELSE IF element.node = "textnode" THEN Str(StripWs(element.text))
        ELSE IF attribute = "text" THEN Str(StripWs(element.text))
        ELSE IF attribute = "html" THEN Html(element.imgs)
        ELSE LET value == SoupGet(element, attribute)
             IN  IF ~Falsy(value) /\ attribute \in {"src", "href"}
                 THEN [kind |-> "url", url |-> urljoin(base_url, value.ref)]
                 ELSE value

\* dict.get(key): None when the key is absent.
Get(d, k) == IF k \in DOMAIN d THEN d[k] ELSE NoneVal

\* The rules process_url extracts: those with both keys (lines 248-252).
CompleteRule(r) == r.has_xpath /\ r.has_attribute

RuleOf(rules, name) == CHOOSE r \in {rules[i] : i \in 1..Len(rules)} : r.name = name

\* The extraction loop of process_url (lines 247-261).
ExtractAll(html_content, rules, base_url) ==
    LET names == {rules[i].name : i \in {j \in 1..Len(rules) : CompleteRule(rules[j])}}
    IN  [n \in names |->
            extract_field(html_content, RuleOf(rules, n).xpath,
                          RuleOf(rules, n).attribute, base_url)]

\* The mutant of the gate that checks the title only.
RequiredPresent_title_only(extracted_fields) ==
    ~Falsy(Get(extracted_fields, "title"))

\* The required-field gate of process_url (line 264), negated.
RequiredPresent(extracted_fields) ==
    ~(Falsy(Get(extracted_fields, "title")) \/ Falsy(Get(extracted_fields, "content")))

\* ------------------------------------------------------------ more bounds
\* Runs of the program (process starts) in one behaviour.
MaxRuns == 2

\* Longest URL list.
MaxUrls == 2

\* Environment failures (I/O errors, raised exceptions, kills of the
\* process) in one behaviour.
MaxFaults == 1

\* -------------------------------------------------------------------- state
VARIABLES
    \* the filesystem under project_root
    urlFile,            \* urllist.txt: [readable, lines]
    ledger,             \* downloaded.log: its lines, in file order
    docs,               \* content/blog: path -> document
    images,             \* static/images: name -> "complete" | "partial"
    \* the environment
    faults,             \* environment failures so far
    \* the process: main
    pc,                 \* where the process is; "idle" before the first run
    config,             \* config['fields'] as loaded
    urls,               \* the URL list as read
    downloaded_urls,    \* the set get_downloaded_urls returned
    idx,                \* position of the for loop in urls (1-based)
    exit_code,          \* of the last run that exited
    result,             \* what the last process_url call returned
    \* the process: the locals of process_url
    url, html_content, base_url, extracted_fields, soup, img_i, content_md,
    front_matter, md_save_path, success,
    \* history
    runs,               \* runs started so far
    crashed_on,         \* the URL process_url was handling when the process was killed
    run_cfg,            \* the configuration file the current run was given
    fs_at_start,        \* <<ledger, docs, images>> when the run started
    run_events,         \* <<url, what>> done by the current run
    doc_writes,         \* url -> its document was written "never", "once", "again"
    fs_at_call,         \* <<ledger, docs, images>> at process_url's entry
    steps,              \* what the current process_url call did, in order
    resolved_url,       \* response.url of the call's fetch
    \* the inputs of the pure-function specification
    sf_in, sf_out, sf_pc,
    \* replacestr.py: the bulk replacement utility
    r_pc,               \* where its main is; "off" when it is not run
    r_args,             \* --force, --target, and whether --root is a directory
    r_tree,             \* the files under --root, in os.walk order: their contents
    r_tree0,            \* r_tree when the utility started
    r_i,                \* position of find_and_replace in the walk
    r_modified_files,   \* modified_files of the pass under way
    r_count,            \* count of the pass under way
    r_found,            \* the files main listed in its preview
    r_answer,           \* what the user typed at the prompt
    r_changed           \* the number of changed files main printed, -1 if none

fsVars == <<urlFile, ledger, docs, images>>

mainVars == <<pc, config, urls, downloaded_urls, idx, exit_code, result>>

callVars == <<url, html_content, base_url, extracted_fields, soup, img_i, content_md,
              front_matter, md_save_path, success>>

histVars == <<runs, crashed_on, run_cfg, fs_at_start, run_events, doc_writes, fs_at_call, steps, resolved_url>>

slugVars == <<sf_in, sf_out, sf_pc>>

replaceVars == <<r_pc, r_args, r_tree, r_tree0, r_i, r_modified_files, r_count, r_found,
                 r_answer, r_changed>>

vars == <<fsVars, faults, mainVars, callVars, histVars, slugVars, replaceVars>>

\* The environment fails once more, within its budget.
Fault == faults < MaxFaults /\ faults' = faults + 1

NoFault == faults' = faults

\* ----------------------------------------------------------------- defaults
NoUrl == [host |-> "", path |-> <<>>]

NoPage == [node |-> "nopage"]

NoFields == [n \in {} |-> NoneVal]

NoPath == [date |-> <<>>, slug |-> <<>>]

NoFiles == [n \in {} |-> "complete"]

NoWrites == [u \in URLS |-> "never"]

FS == <<ledger, docs, images>>

\* The locals of process_url, gone when it returns or the process ends.
ClearCall ==
    /\ url' = NoUrl
    /\ html_content' = NoPage
    /\ base_url' = NoUrl
    /\ extracted_fields' = NoFields
    /\ soup' = <<>>
    /\ img_i' = 0
    /\ content_md' = NoneVal
    /\ front_matter' = NoFields
    /\ md_save_path' = NoPath
    /\ success' = FALSE

\* ------------------------------------------------------ the files' readers
\* read_url_list (50-64): the stripped non-blank lines, or it raises.
read_url_list(file) ==
    IF file.readable THEN [ok |-> TRUE, urls |-> file.lines] ELSE [ok |-> FALSE]

Lines(log) == {log[i] : i \in 1..Len(log)}

\* get_downloaded_urls (66-77): the set of the ledger's lines; the empty set
\* when the file is absent and when reading it raises.
get_downloaded_urls(log, readable) ==
    IF Len(log) = 0 THEN {}
    ELSE IF readable THEN Lines(log)
    ELSE {}

\* The mutant of mark_as_downloaded that opens the file for writing, not
\* for appending.
mark_as_downloaded_truncates(log, u, append_ok) ==
    IF append_ok THEN <<u>> ELSE log

\* mark_as_downloaded (79-87): one appended line, or nothing when the
\* append raises (the exception is logged and swallowed).
mark_as_downloaded(log, u, append_ok) ==
    IF append_ok THEN Append(log, u) ELSE log

\* The URL lists: U1 and U2 are interchangeable, so a list begins with U1.
UrlLists == {l \in SeqsUpTo(URLS, MaxUrls) : Len(l) = 0 \/ l[1] = U1}

\* --------------------------------------------------------------------- Init
NoCfg == [file |-> "none"]

UrlFiles ==
    {[readable |-> FALSE, lines |-> <<>>]} \cup {[readable |-> TRUE, lines |-> l] : l \in UrlLists}

\* Nothing has run yet: an empty project directory apart from urllist.txt.
InitPipeline ==
    /\ ledger = <<>>
    /\ docs = [p \in {} |-> NoneVal]
    /\ images = NoFiles
    /\ faults = 0
    /\ pc = "idle"
    /\ config = <<>>
    /\ urls = <<>>
    /\ downloaded_urls = {}
    /\ idx = 0
    /\ exit_code = 0
    /\ result = "none"
    /\ url = NoUrl
    /\ html_content = NoPage
    /\ base_url = NoUrl
    /\ extracted_fields = NoFields
    /\ soup = <<>>
    /\ img_i = 0
    /\ content_md = NoneVal
    /\ front_matter = NoFields
    /\ md_save_path = NoPath
    /\ success = FALSE
    /\ runs = 0
    /\ crashed_on = NoUrl
    /\ run_cfg = NoCfg
    /\ fs_at_start = <<<<>>, [p \in {} |-> NoneVal], NoFiles>>
    /\ run_events = {}
    /\ doc_writes = NoWrites
    /\ fs_at_call = <<<<>>, [p \in {} |-> NoneVal], NoFiles>>
    /\ steps = <<>>
    /\ resolved_url = NoUrl

\* replacestr.py is not run.
NoArgs == [force |-> FALSE, target |-> <<>>, root_ok |-> FALSE]

ReplaceOff ==
    /\ r_pc = "off"
    /\ r_args = NoArgs
    /\ r_tree = <<>>
    /\ r_tree0 = <<>>
    /\ r_i = 0
    /\ r_modified_files = <<>>
    /\ r_count = 0
    /\ r_found = <<>>
    /\ r_answer = ""
    /\ r_changed = -1

Init ==
    /\ urlFile \in UrlFiles
    /\ InitPipeline
    /\ sf_in = <<>>
    /\ sf_out = <<>>
    /\ sf_pc = "off"
    /\ ReplaceOff

\* ------------------------------------------------------------ main (306-342)
\* The process ends with sys.exit(code) or by returning from main (code 0).
Exit(code) ==
    /\ pc' = "exited"
    /\ exit_code' = code
    /\ config' = <<>>
    /\ downloaded_urls' = {}
    /\ result' = "none"
    /\ ClearCall

\* main up to the loop (308-324): load the configuration, make the
\* directories, read the URL list, load the ledger.
StartRun ==
    /\ pc \in {"idle", "exited", "crashed"}
    /\ runs < MaxRuns
    /\ runs' = runs + 1
    /\ fs_at_start' = FS
    /\ run_events' = {}
    /\ steps' = <<>>
    /\ \E cfg \in ConfigFiles, dirs_ok \in BOOLEAN, ledger_readable \in BOOLEAN :
        LET loaded == load_config(cfg)
            list == read_url_list(urlFile)
        IN  /\ run_cfg' = cfg
            /\ IF dirs_ok /\ ledger_readable THEN NoFault ELSE Fault
            /\ ~(~dirs_ok /\ ~ledger_readable)
            /\ IF ~loaded.ok \/ ~dirs_ok \/ ~list.ok
               THEN Exit(1) /\ urls' = <<>> /\ idx' = 0
               ELSE IF Len(list.urls) = 0
               THEN Exit(0) /\ urls' = <<>> /\ idx' = 0
               ELSE /\ pc' = "loop"
                    /\ config' = loaded.fields
                    /\ urls' = list.urls
                    /\ downloaded_urls' = get_downloaded_urls(ledger, ledger_readable)
                    /\ idx' = 1
                    /\ UNCHANGED <<exit_code, result>>
                    /\ ClearCall
    /\ UNCHANGED <<fsVars, crashed_on, doc_writes, fs_at_call, resolved_url, slugVars, replaceVars>>

\* The loop is over: "all URLs processed" (338), main returns.
FinishRun ==
    /\ pc = "loop"
    /\ idx > Len(urls)
    /\ Exit(0)
    /\ UNCHANGED <<urls, idx>>
    /\ UNCHANGED <<fsVars, faults, histVars, slugVars, replaceVars>>

\* The URL is in downloaded_urls: skipped (328-330).
SkipUrl ==
    /\ pc = "loop"
    /\ idx <= Len(urls)
    /\ urls[idx] \in downloaded_urls
    /\ idx' = idx + 1
    /\ UNCHANGED <<pc, config, urls, downloaded_urls, exit_code, result>>
    /\ UNCHANGED <<fsVars, faults, callVars, histVars, slugVars, replaceVars>>

\* ---------------------------------------------------- process_url (237-304)
NoFS == <<<<>>, [p \in {} |-> NoneVal], NoFiles>>

\* process_url returns r to the loop of main (line 333).
Return(r) ==
    /\ pc' = "ret"
    /\ result' = r
    /\ ClearCall
    /\ UNCHANGED <<config, urls, downloaded_urls, idx, exit_code>>

\* An exception leaves process_url: main's handler logs it and calls
\* sys.exit(1) (340-342).
Abort ==
    /\ Exit(1)
    /\ UNCHANGED <<urls, idx>>
    /\ fs_at_call' = NoFS
    /\ resolved_url' = NoUrl

\* fetch_page_content (89-97) on success: the body and the base URL it
\* returns, given the requested URL and the URL the response came from.
fetch_page_content(requested, body, final) == [html |-> body, base |-> requested]

\* The mutant of the failed fetch that records the URL all the same.
FetchFailed_marks(u) ==
    /\ Fault
    /\ Return("False")
    /\ steps' = <<"fetch_failed">>
    /\ resolved_url' = NoUrl
    /\ ledger' = Append(ledger, u)
    /\ UNCHANGED <<urlFile, docs, images>>

\* The fetch raised a RequestException (98-100): process_url returns False
\* (243-244).
FetchFailed(u) ==
    /\ Fault
    /\ Return("False")
    /\ steps' = <<"fetch_failed">>
    /\ resolved_url' = NoUrl
    /\ UNCHANGED fsVars

\* The loop calls process_url(url, config), which fetches the page (239-244).
Fetch ==
    /\ pc = "loop"
    /\ idx <= Len(urls)
    /\ urls[idx] \notin downloaded_urls
    /\ LET u == urls[idx]
       IN  /\ fs_at_call' = FS
           /\ run_events' = run_events \cup {<<u, "fetch">>}
           /\ \/ FetchFailed(u)
              \/ \E final \in FinalUrls(u) :
                    \* an empty body: `not html_content`
                    /\ NoFault
                    /\ Return("False")
                    /\ steps' = <<"fetch_empty">>
                    /\ resolved_url' = final
                    /\ UNCHANGED fsVars
              \/ \E page \in Pages, final \in FinalUrls(u) :
                    LET got == fetch_page_content(u, page, final)
                    IN  /\ NoFault
                        /\ pc' = "fetched"
                        /\ url' = u
                        /\ html_content' = got.html
                        /\ base_url' = got.base
                        /\ resolved_url' = final
                        /\ steps' = <<"fetch_ok">>
                        /\ UNCHANGED <<extracted_fields, soup, img_i, content_md,
                                       front_matter, md_save_path, success>>
                        /\ UNCHANGED <<config, urls, downloaded_urls, idx, exit_code,
                                       result>>
                        /\ UNCHANGED fsVars
    /\ UNCHANGED <<runs, crashed_on, run_cfg, fs_at_start, doc_writes, slugVars, replaceVars>>

\* The extraction loop (246-261).  html_content is not read after it, and
\* the response object is gone.
ExtractFields ==
    /\ pc = "fetched"
    /\ pc' = "extracted"
    /\ extracted_fields' = ExtractAll(html_content, config, base_url)
    /\ html_content' = NoPage
    /\ resolved_url' = NoUrl
    /\ steps' = Append(steps, "extract")
    /\ UNCHANGED <<config, urls, downloaded_urls, idx, exit_code, result>>
    /\ UNCHANGED <<url, base_url, soup, img_i, content_md, front_matter,
                   md_save_path, success>>
    /\ UNCHANGED <<fsVars, faults, runs, crashed_on, run_cfg, fs_at_start, run_events, doc_writes,
                   fs_at_call, slugVars, replaceVars>>

\* datetime.now(): every run of a behaviour falls in the same second of the
\* same day.
now == "now"

\* datetime.now().strftime('%Y-%m-%d')
strftime_date(t) == <<"date", t>>

\* The images of a content value: soup.find_all('img') (199-200).
ImgsOf(v) == IF v.kind = "html" THEN v.imgs ELSE <<>>

\* The required-field gate (263-266), then the date, the slug and the
\* paths (268-283) and the start of download_content_images (196-200).
RequiredGate ==
    /\ pc = "extracted"
    /\ IF ~RequiredPresent(extracted_fields)
       THEN /\ Return("False")
            /\ steps' = Append(steps, "gate_failed")
       ELSE LET needs_date == \/ "date" \notin DOMAIN extracted_fields
                              \/ Falsy(extracted_fields["date"])
            IN    LET dated == IF needs_date
                               THEN ("date" :> Str(strftime_date(now))) @@ extracted_fields
                               ELSE extracted_fields
                      slug == sanitize_filename(dated["title"].chars)
                  IN  /\ pc' = "localize"
                      /\ extracted_fields' = ("slug" :> Str(slug)) @@ dated
                      /\ md_save_path' = [date |-> dated["date"].chars, slug |-> slug]
                      /\ soup' = ImgsOf(dated["content"])
                      /\ img_i' = 1
                      /\ steps' = Append(steps, "gate_ok")
                      /\ UNCHANGED <<url, html_content, base_url, content_md,
                                     front_matter, success>>
                      /\ UNCHANGED <<config, urls, downloaded_urls, idx, exit_code,
                                     result>>
    /\ UNCHANGED <<fsVars, faults, runs, crashed_on, run_cfg, fs_at_start, run_events, doc_writes, fs_at_call,
                   resolved_url, slugVars, replaceVars>>

\* ------------------------------------------------- download_image (152-192)
\* A file name under static/images: a basename taken from the URL, or the
\* synthetic image_<timestamp>.jpg.
FileName(stem) == [stem |-> stem, ts |-> "-"]

TsName(t) == [stem |-> "image_", ts |-> t]

\* The absolute URL requested (161-163).
ImageUrl(base, ref) ==
    IF ~ref.abs THEN urljoin(base, ref) ELSE [host |-> ref.host, path |-> ref.path]

\* Whether the name is synthesized from the clock (166-168).
NeedsTimestamp(base, ref) ==
    LET b == Basename(ImageUrl(base, ref)) IN b = "" \/ ~HasDot(b)

image_name(base, ref, t) ==
    IF NeedsTimestamp(base, ref) THEN TsName(t)
    ELSE FileName(Basename(ImageUrl(base, ref)))

\* img['src'] = f"/static/images/{img_name}" (208)
Rewrite(imgs, i, name) == [imgs EXCEPT ![i] = LocalSrc(name)]

\* The mutant of the existence test that never finds the file.
Exists_never(files, name) == FALSE

\* os.path.exists(save_path) (173)
Exists(files, name) == name \in DOMAIN files

\* The mutant of the failed download whose reference is rewritten all the
\* same.
DownloadFailed_rewrites ==
    /\ Fault
    /\ steps' = Append(steps, "image_failed")
    /\ soup' = Rewrite(soup, img_i, image_name(base_url, soup[img_i], now))
    /\ UNCHANGED images

\* makedirs or the request raised (159, 181-182): download_image logs it
\* and returns None (190-192), and the src is left (206).
DownloadFailed ==
    /\ Fault
    /\ steps' = Append(steps, "image_failed")
    /\ UNCHANGED <<images, soup>>

\* One iteration of the loop of download_content_images (202-208) with its
\* call of download_image.
DownloadImage ==
    /\ pc = "localize"
    /\ img_i <= Len(soup)
    /\ img_i' = img_i + 1
    /\ LET ref == soup[img_i]
       IN  IF ref = NoSrc
           THEN \* no src: nothing is downloaded (204)
                /\ steps' = Append(steps, "image_nosrc")
                /\ UNCHANGED <<soup, images, faults, run_events>>
           ELSE  LET name == image_name(base_url, ref, now)
                 IN  /\ IF Exists(images, name)
                        THEN \* the file exists: reused, no request (173-175)
                             /\ soup' = Rewrite(soup, img_i, name)
                             /\ steps' = Append(steps, "image_reused")
                             /\ UNCHANGED <<images, faults, run_events>>
                        ELSE /\ run_events' = run_events \cup {<<url, "image">>}
                             /\ \/ \* downloaded and written (181-189)
                                   /\ NoFault
                                   /\ images' = (name :> "complete") @@ images
                                   /\ soup' = Rewrite(soup, img_i, name)
                                   /\ steps' = Append(steps, "image_downloaded")
                                \/ DownloadFailed
                                \/ \* the transfer raised after open(save_path, 'wb')
                                   /\ Fault
                                   /\ images' = (name :> "partial") @@ images
                                   /\ steps' = Append(steps, "image_torn")
                                   /\ UNCHANGED soup
    /\ UNCHANGED <<urlFile, ledger, docs>>
    /\ UNCHANGED <<mainVars>>
    /\ UNCHANGED <<url, html_content, base_url, extracted_fields, content_md, front_matter,
                   md_save_path, success>>
    /\ UNCHANGED <<runs, crashed_on, run_cfg, fs_at_start, doc_writes, fs_at_call, resolved_url, slugVars, replaceVars>>

\* ------------------------------------------------------ rendering (289-296)
\* markdownify: the Markdown text, each <img> turned into an image link.
md(html_imgs) == [kind |-> "markdown", images |-> html_imgs]

\* front_matter = every extracted field but content and url (293).
FrontMatterOf(fields) == [k \in DOMAIN fields \ {"content", "url"} |-> fields[k]]

\* The mutant of the loop's end that lets the function return before the
\* last image.
LocalizationDone_early == TRUE

\* The for loop of download_content_images has handled every image (202).
LocalizationDone == img_i > Len(soup)

\* str(soup), the conversion to Markdown and the front-matter (210, 289-293).
\* md() is called outside any try: what it raises leaves process_url.
ConvertMarkdown ==
    /\ pc = "localize"
    /\ LocalizationDone
    /\ \/ /\ NoFault
          /\ pc' = "render"
          /\ content_md' = md(soup)
          /\ front_matter' = FrontMatterOf(extracted_fields)
          /\ steps' = Append(steps, "convert")
          /\ UNCHANGED <<url, html_content, base_url, extracted_fields, soup, img_i,
                         md_save_path, success>>
          /\ UNCHANGED <<config, urls, downloaded_urls, idx, exit_code, result>>
          /\ UNCHANGED <<fs_at_call, resolved_url>>
       \/ /\ Fault
          /\ Abort
          /\ steps' = Append(steps, "convert_raised")
    /\ UNCHANGED <<fsVars, runs, crashed_on, run_cfg, fs_at_start, run_events, doc_writes, slugVars, replaceVars>>

\* str(value).replace('"', '\\"') (223)
RECURSIVE EscapeQuotes(_)
EscapeQuotes(s) ==
    IF Len(s) = 0 THEN <<>>
    ELSE (IF s[1] = "\"" THEN <<"\\", "\"">> ELSE <<s[1]>>) \o EscapeQuotes(Tail(s))

\* The mutant of the rendering that writes a line for a None field too.
Render_keeps_none(front, content) ==
    [partial |-> FALSE,
     front |-> [k \in DOMAIN front |->
                   IF front[k].kind = "none" THEN <<"N", "o", "n", "e">>
                   ELSE EscapeQuotes(front[k].chars)],
     body |-> content]

\* The text create_markdown_file writes (217-226): one line per field that
\* is not None, then the body.
Render(front, content) ==
    [partial |-> FALSE,
     front |-> [k \in {j \in DOMAIN front : front[j].kind # "none"} |->
                   EscapeQuotes(front[k].chars)],
     body |-> content]

\* A file that open(save_path, 'w') truncated and the write did not fill.
PartialDoc == [partial |-> TRUE]

\* create_markdown_file (212-235), called at 296.  os.makedirs (215) is
\* outside the try: what it raises leaves process_url.
WriteDocument ==
    /\ pc = "render"
    /\ \/ \* written
          /\ NoFault
          /\ docs' = (md_save_path :> Render(front_matter, content_md)) @@ docs
          /\ success' = TRUE
          /\ doc_writes' = [doc_writes EXCEPT ![url] = IF @ = "never" THEN "once" ELSE "again"]
          /\ run_events' = run_events \cup {<<url, "write">>}
          /\ steps' = Append(steps, "write_ok")
          /\ pc' = "written"
          /\ UNCHANGED <<url, html_content, base_url, extracted_fields, soup, img_i,
                         content_md, front_matter, md_save_path>>
          /\ UNCHANGED <<config, urls, downloaded_urls, idx, exit_code, result>>
          /\ UNCHANGED <<fs_at_call, resolved_url>>
       \/ \* open raised: nothing written, returns False (233-235)
          /\ Fault
          /\ success' = FALSE
          /\ steps' = Append(steps, "write_failed")
          /\ pc' = "written"
          /\ UNCHANGED <<docs, doc_writes, run_events>>
          /\ UNCHANGED <<url, html_content, base_url, extracted_fields, soup, img_i,
                         content_md, front_matter, md_save_path>>
          /\ UNCHANGED <<config, urls, downloaded_urls, idx, exit_code, result>>
          /\ UNCHANGED <<fs_at_call, resolved_url>>
       \/ \* write raised after open: a torn file, returns False (233-235)
          /\ Fault
          /\ docs' = (md_save_path :> PartialDoc) @@ docs
          /\ success' = FALSE
          /\ steps' = Append(steps, "write_torn")
          /\ pc' = "written"
          /\ UNCHANGED <<doc_writes, run_events>>
          /\ UNCHANGED <<url, html_content, base_url, extracted_fields, soup, img_i,
                         content_md, front_matter, md_save_path>>
          /\ UNCHANGED <<config, urls, downloaded_urls, idx, exit_code, result>>
          /\ UNCHANGED <<fs_at_call, resolved_url>>
       \/ \* os.makedirs raised (215)
          /\ Fault
          /\ Abort
          /\ steps' = Append(steps, "makedirs_raised")
          /\ UNCHANGED <<docs, doc_writes, run_events>>
    /\ UNCHANGED <<urlFile, ledger, images, runs, crashed_on, run_cfg, fs_at_start, slugVars, replaceVars>>

\* The mutant of the guard that records whatever create_markdown_file returned.
ShouldMark_always(ok) == TRUE

\* `if success:` (298)
ShouldMark(ok) == ok

\* The end of process_url (298-304) with mark_as_downloaded.
RecordResult ==
    /\ pc = "written"
    /\ IF ShouldMark(success)
       THEN /\ \E append_ok \in BOOLEAN :
                 /\ IF append_ok THEN NoFault ELSE Fault
                 /\ ledger' = mark_as_downloaded(ledger, url, append_ok)
                 /\ steps' = Append(steps, IF append_ok THEN "append_ok" ELSE "append_failed")
                 /\ run_events' = IF append_ok THEN run_events \cup {<<url, "append">>}
                                  ELSE run_events
            /\ Return("True")
       ELSE /\ Return("False")
            /\ steps' = Append(steps, "not_recorded")
            /\ UNCHANGED <<ledger, faults, run_events>>
    /\ UNCHANGED <<urlFile, docs, images, runs, crashed_on, run_cfg, fs_at_start, doc_writes, fs_at_call,
                   resolved_url, slugVars, replaceVars>>

\* The loop goes on to the next URL (327, 333).
NextUrl ==
    /\ pc = "ret"
    /\ pc' = "loop"
    /\ idx' = idx + 1
    /\ steps' = <<>>
    /\ fs_at_call' = NoFS
    /\ resolved_url' = NoUrl
    /\ UNCHANGED <<config, urls, downloaded_urls, exit_code, result>>
    /\ UNCHANGED <<fsVars, faults, callVars, runs, crashed_on, run_cfg, fs_at_start, run_events,
                   doc_writes, slugVars, replaceVars>>

\* The process is killed between two steps: its memory is lost, the files
\* stay as they are.
Killed ==
    /\ pc \in {"loop", "fetched", "extracted", "localize", "render", "written", "ret"}
    /\ pc' = "crashed"
    /\ crashed_on' = IF pc \in {"fetched", "extracted", "localize", "render", "written"}
                      THEN url ELSE NoUrl
    /\ config' = <<>>
    /\ urls' = <<>>
    /\ downloaded_urls' = {}
    /\ idx' = 0
    /\ result' = "none"
    /\ ClearCall
    /\ steps' = <<>>
    /\ fs_at_call' = NoFS
    /\ resolved_url' = NoUrl
    /\ UNCHANGED <<exit_code, fsVars, runs, run_cfg, fs_at_start, run_events, doc_writes,
                   slugVars, replaceVars>>

\* A kill counted among the environment's failures.
Crash == Fault /\ Killed

\* A kill that is not: the operator may stop the process whenever they like.
Kill == NoFault /\ Killed

Next ==
    \/ StartRun
    \/ FinishRun
    \/ SkipUrl
    \/ Fetch
    \/ ExtractFields
    \/ RequiredGate
    \/ DownloadImage
    \/ ConvertMarkdown
    \/ WriteDocument
    \/ RecordResult
    \/ NextUrl
    \/ Crash

Spec == Init /\ [][Next]_vars

\* The pipeline with a process that may be killed in any run, whatever else
\* fails.
NextResume == Next \/ Kill

SpecResume == Init /\ [][NextResume]_vars

\* ------------------------------------- sanitize_filename on its own inputs
\* The function applied to a title, then applied to its own output.
InitSlug ==
    /\ urlFile = [readable |-> FALSE, lines |-> <<>>]
    /\ InitPipeline
    /\ sf_in \in Titles
    /\ sf_out = <<>>
    /\ sf_pc = "input"
    /\ ReplaceOff

Slugify ==
    /\ sf_pc = "input"
    /\ sf_out' = sanitize_filename(sf_in)
    /\ sf_pc' = "once"
    /\ UNCHANGED <<sf_in, fsVars, faults, mainVars, callVars, histVars, replaceVars>>

SlugifyAgain ==
    /\ sf_pc = "once"
    /\ sf_in' = sf_out
    /\ sf_out' = sanitize_filename(sf_out)
    /\ sf_pc' = "twice"
    /\ UNCHANGED <<fsVars, faults, mainVars, callVars, histVars, replaceVars>>

NextSlug == Slugify \/ SlugifyAgain

SpecSlug == InitSlug /\ [][NextSlug]_vars

\* ============================================================ replacestr.py
\* A file's content is a sequence of tokens; "s" is the source string, so
\* that `source_str in content` is an occurrence of "s" and str.replace
\* puts the target in the place of each "s".
Contents == {<<"x">>, <<"s">>, <<"s", "x", "s">>}

\* --target: another text, or a text that holds the source string again.
Targets == {<<"t">>, <<"s", "s">>}

\* The file names os.walk yields under --root, in its order.
Walk == << <<"a", ".", "m", "d">>, <<"B", ".", "M", "D">>, <<"c", ".", "t", "x", "t">> >>

\* The trees: the two Markdown files vary, the text file holds the source.
Trees == {<<c1, c2, <<"s">> >> : c1 \in Contents, c2 \in Contents}

\* str.lower() on the characters of the file names.
LowerName(name) ==
    [i \in 1..Len(name) |->
        CASE name[i] = "B" -> "b"
          [] name[i] = "M" -> "m"
          [] name[i] = "D" -> "d"
          [] OTHER -> name[i]]

\* filename.lower().endswith('.md') (36)
IsMarkdown(name) ==
    /\ Len(name) >= 3
    /\ SubSeq(LowerName(name), Len(name) - 2, Len(name)) = <<".", "m", "d">>

\* source_str in content (12, 44)
HasSource(content) == \E i \in 1..Len(content) : content[i] = "s"

\* content.replace(source_str, target_str) (16)
RECURSIVE ReplaceAll(_, _)
ReplaceAll(content, target) ==
    IF Len(content) = 0 THEN <<>>
    ELSE (IF content[1] = "s" THEN target ELSE <<content[1]>>)
            \o ReplaceAll(Tail(content), target)

\* What can happen to the file in replace_in_file.
Outcomes == {"written", "read_raised", "open_raised", "write_raised"}

\* replace_in_file (4-25): the content it leaves and what it returns.
replace_in_file(content, target, outcome) ==
    IF outcome = "read_raised" THEN [content |-> content, ok |-> FALSE]
    ELSE IF ~HasSource(content) THEN [content |-> content, ok |-> FALSE]
    ELSE IF outcome = "open_raised" THEN [content |-> content, ok |-> FALSE]
    ELSE IF outcome = "write_raised" THEN [content |-> <<>>, ok |-> FALSE]
    ELSE [content |-> ReplaceAll(content, target), ok |-> TRUE]

\* `if not dry_run:` (46)
ShouldReplace(dry_run) == ~dry_run

\* what find_and_replace returns as its count (52-54)
ReturnedCount(dry_run, count) == IF dry_run THEN 0 ELSE count

\* confirm.lower() (87)
LowerAnswer(answer) ==
    CASE answer = "Y" -> "y"
      [] answer = "YES" -> "yes"
      [] OTHER -> answer

Answers == {"y", "Y", "YES", "n", "", "yes please"}

InitReplace ==
    /\ urlFile = [readable |-> FALSE, lines |-> <<>>]
    /\ InitPipeline
    /\ sf_in = <<>>
    /\ sf_out = <<>>
    /\ sf_pc = "off"
    /\ r_pc = "start"
    /\ r_args \in [force : BOOLEAN, target : Targets, root_ok : BOOLEAN]
    /\ r_tree \in Trees
    /\ r_tree0 = r_tree
    /\ r_i = 0
    /\ r_modified_files = <<>>
    /\ r_count = 0
    /\ r_found = <<>>
    /\ r_answer = ""
    /\ r_changed = -1

\* find_and_replace is entered (29-30).
EnterPass(pass) ==
    /\ r_pc' = pass
    /\ r_i' = 1
    /\ r_modified_files' = <<>>
    /\ r_count' = 0

\* main up to its first call of find_and_replace (56-73).
ReplaceStart ==
    /\ r_pc = "start"
    /\ IF ~r_args.root_ok
       THEN /\ r_pc' = "done"
            /\ UNCHANGED <<r_i, r_modified_files, r_count>>
       ELSE EnterPass("dry")
    /\ UNCHANGED <<r_args, r_tree, r_tree0, r_found, r_answer, r_changed>>
    /\ UNCHANGED <<fsVars, faults, mainVars, callVars, histVars, slugVars>>

\* One file of the walk of find_and_replace (33-50).
VisitFile ==
    /\ r_pc \in {"dry", "real"}
    /\ r_i <= Len(Walk)
    /\ r_i' = r_i + 1
    /\ LET dry_run == r_pc = "dry"
           content == r_tree[r_i]
       IN  IF ~IsMarkdown(Walk[r_i])
           THEN UNCHANGED <<r_tree, r_modified_files, r_count>>
           ELSE \/ \* reading the file raised (49-50)
                   UNCHANGED <<r_tree, r_modified_files, r_count>>
                \/ \* the file was read and does not hold the source
                   /\ ~HasSource(content)
                   /\ UNCHANGED <<r_tree, r_modified_files, r_count>>
                \/ \* the file holds the source (44-48)
                   /\ HasSource(content)
                   /\ r_modified_files' = Append(r_modified_files, r_i)
                   /\ IF ShouldReplace(dry_run)
                      THEN \E outcome \in Outcomes :
                             LET done == replace_in_file(content, r_args.target, outcome)
                             IN  /\ r_tree' = [r_tree EXCEPT ![r_i] = done.content]
                                 /\ r_count' = IF done.ok THEN r_count + 1 ELSE r_count
                      ELSE UNCHANGED <<r_tree, r_count>>
    /\ UNCHANGED <<r_pc, r_args, r_tree0, r_found, r_answer, r_changed>>
    /\ UNCHANGED <<fsVars, faults, mainVars, callVars, histVars, slugVars>>

\* The dry run returns; main lists what it found (52-53, 73-82).
Preview ==
    /\ r_pc = "dry"
    /\ r_i > Len(Walk)
    /\ r_found' = r_modified_files
    /\ r_pc' = IF Len(r_modified_files) = 0 THEN "done" ELSE "preview"
    /\ UNCHANGED <<r_args, r_tree, r_tree0, r_i, r_modified_files, r_count, r_answer,
                   r_changed>>
    /\ UNCHANGED <<fsVars, faults, mainVars, callVars, histVars, slugVars>>

\* The confirmation (85-89) and the second call of find_and_replace (93).
Confirm ==
    /\ r_pc = "preview"
    /\ IF r_args.force
       THEN /\ EnterPass("real")
            /\ UNCHANGED r_answer
       ELSE \E answer \in Answers :
              /\ r_answer' = answer
              /\ IF LowerAnswer(answer) \in {"y", "yes"}
                 THEN EnterPass("real")
                 ELSE /\ r_pc' = "done"
                      /\ UNCHANGED <<r_i, r_modified_files, r_count>>
    /\ UNCHANGED <<r_args, r_tree, r_tree0, r_found, r_changed>>
    /\ UNCHANGED <<fsVars, faults, mainVars, callVars, histVars, slugVars>>

\* The second call returns and main prints its count (54, 93-95).
Report ==
    /\ r_pc = "real"
    /\ r_i > Len(Walk)
    /\ r_changed' = ReturnedCount(FALSE, r_count)
    /\ r_pc' = "done"
    /\ UNCHANGED <<r_args, r_tree, r_tree0, r_i, r_modified_files, r_count, r_found,
                   r_answer>>
    /\ UNCHANGED <<fsVars, faults, mainVars, callVars, histVars, slugVars>>

NextReplace == ReplaceStart \/ VisitFile \/ Preview \/ Confirm \/ Report

SpecReplace == InitReplace /\ [][NextReplace]_vars

\* ================================================================== claims
Last(s) == s[Len(s)]

Occurrences(log, u) == Cardinality({i \in 1..Len(log) : log[i] = u})

\* C1: the ledger changes only by process_url appending its own URL, and
\* only after create_markdown_file returned success for that URL in the same
\* call, the document being on disk in full.
LedgerAppendOnlyAfterWrite ==
    [][ledger' # ledger =>
         /\ pc = "written"
         /\ success = TRUE
         /\ steps # <<>>
         /\ Last(steps) = "write_ok"
         /\ md_save_path \in DOMAIN docs
         /\ docs[md_save_path] = Render(front_matter, content_md)
         /\ ledger' = Append(ledger, url)]_vars

\* C1, its case: a call wrote its document and then appended its URL.
LedgerAppendedAfterWrite ==
    /\ pc = "ret"
    /\ result = "True"
    /\ steps # <<>>
    /\ Last(steps) = "append_ok"
    /\ urls[idx] \in Lines(ledger)

\* C2: over all runs, no URL has its document written more than once and
\* no URL is on more than one line of the ledger.
ProcessedAtMostOnce ==
    \A u \in URLS : doc_writes[u] # "again" /\ Occurrences(ledger, u) <= 1

\* C3: a run does nothing (no fetch, no image download, no document write,
\* no ledger append) for a URL that was a line of the ledger when it started.
LedgerUrlsNeverReprocessed ==
    \A e \in run_events : e[1] \notin Lines(fs_at_start[1])

\* C4: a run that got as far as its loop ends only by the loop having
\* handled every URL of the list: no failure inside process_url ends it.
NoUrlFailureHaltsRun ==
    (pc = "exited" /\ Len(urls) > 0) => (exit_code = 0 /\ idx > Len(urls))

\* C5: when process_url has returned True for a URL, the URL is a line of
\* the ledger.
SuccessIsRecorded ==
    (pc = "ret" /\ result = "True") => urls[idx] \in Lines(ledger)

\* C6: process_url goes past the gate (to image localization, rendering and
\* the document write) only with a non-empty title and a non-empty content;
\* when either is None or empty, its next step returns False and leaves the
\* documents and the ledger as they were.
RequiredFieldGate ==
    /\ [](pc \in {"localize", "render", "written"} =>
            /\ ~Falsy(Get(extracted_fields, "title"))
            /\ ~Falsy(Get(extracted_fields, "content")))
    /\ [](pc = "ret" /\ steps # <<>> /\ Last(steps) = "gate_failed" =>
            /\ result = "False"
            /\ docs = fs_at_call[2]
            /\ ledger = fs_at_call[1])
    /\ [][(/\ pc = "extracted"
           /\ \/ Falsy(Get(extracted_fields, "title"))
              \/ Falsy(Get(extracted_fields, "content"))) =>
            /\ pc' \in {"ret", "crashed"}
            /\ docs' = docs
            /\ ledger' = ledger]_vars

\* C6, its case: a page without a usable title or content was turned away.
GateTurnedAway ==
    /\ pc = "ret"
    /\ steps # <<>>
    /\ Last(steps) = "gate_failed"
    /\ result = "False"

\* C7: when the fetch of a URL failed, process_url returns False with the
\* ledger, the documents and the images exactly as they were at its entry.
FetchFailureLeavesFiles ==
    (pc = "ret" /\ steps = <<"fetch_failed">>) =>
        (result = "False" /\ FS = fs_at_call)

\* C7, its case: a fetch failed in a run that had already written files.
FetchFailedAfterWrites ==
    /\ pc = "ret"
    /\ steps = <<"fetch_failed">>
    /\ Len(ledger) > 0
    /\ DOMAIN docs # {}

\* C8: after a fetch, the base URL process_url holds is the URL the
\* response came from.
BaseUrlIsResolvedUrl ==
    pc = "fetched" => base_url = resolved_url

\* C9: sanitize_filename applied to its own output returns it unchanged.
SlugIdempotent ==
    sf_pc = "twice" => sf_out = sf_in

\* The configurations the startup must refuse: no file, no JSON, no
\* project_root, no fields mapping, no title entry or no content entry.
InvalidConfig(cfg) ==
    IF cfg.file # "json" THEN TRUE
    ELSE \/ ~cfg.has_root
         \/ ~cfg.has_fields
         \/ ~cfg.fields_is_dict
         \/ "title" \notin FieldNames(cfg.rules)
         \/ "content" \notin FieldNames(cfg.rules)

\* C10: a run given an invalid configuration, or whose URL list cannot be
\* read, has exited with code 1 having fetched nothing, downloaded no image,
\* written no document and appended no ledger line.
StartupFailsClosed ==
    (runs > 0 /\ (InvalidConfig(run_cfg) \/ ~urlFile.readable)) =>
        /\ pc = "exited"
        /\ exit_code = 1
        /\ run_events = {}
        /\ FS = fs_at_start

\* C10, its case: a second run refused a configuration without a title
\* entry, after a first run had recorded a URL.
StartupRefusedAfterWork ==
    /\ pc = "exited"
    /\ exit_code = 1
    /\ run_cfg = CfgNoTitle
    /\ Len(ledger) > 0
    /\ run_events = {}

\* The steps of the current call that handled its images, in order: they
\* follow "fetch_ok", "extract" and "gate_ok".
ImageStep(i) == steps[3 + i]

\* The local file name the i-th image of the content resolves to.
RefName(i) ==
    IF soup[i].kind = "local" THEN soup[i].name
    ELSE image_name(base_url, soup[i], now)

RequestSteps == {"image_downloaded", "image_failed", "image_torn"}

\* C11 as stated: of two images of a content that resolve to the same local
\* file name, the second makes no request, so that at most one request is
\* made for the name.
OneRequestPerName ==
    pc = "localize" =>
        \A i, j \in 1..(img_i - 1) :
            (i < j /\ RefName(i) = RefName(j)) =>
                /\ ImageStep(j) = "image_reused"
                /\ Cardinality({k \in 1..(img_i - 1) :
                        RefName(k) = RefName(i) /\ ImageStep(k) \in RequestSteps}) <= 1

\* C11, amended: a reference whose file name exists on disk makes no
\* request, leaves the file as it is and is rewritten to the name; so of two
\* images that resolve to the same name, the second makes no request once
\* the first has left a file of that name.
ExistingFileReused ==
    /\ [][(pc = "localize" /\ img_i <= Len(soup) /\ pc' = "localize"
            /\ RefName(img_i) \in DOMAIN images) =>
             /\ steps' = Append(steps, "image_reused")
             /\ images' = images
             /\ soup' = [soup EXCEPT ![img_i] = LocalSrc(RefName(img_i))]]_vars
    /\ [](pc = "localize" =>
            \A i, j \in 1..(img_i - 1) :
                (/\ i < j
                 /\ RefName(i) = RefName(j)
                 /\ ImageStep(i) \in {"image_downloaded", "image_torn", "image_reused"}) =>
                    /\ ImageStep(j) = "image_reused"
                    /\ soup[j] = LocalSrc(RefName(j)))

\* C11, its case: two images of one content with different URLs and the
\* same file name, the first downloaded and the second reused.
SecondReferenceReused ==
    /\ pc = "localize"
    /\ img_i = 3
    /\ ImageUrl(base_url, RelP) # ImageUrl(base_url, AbsP)
    /\ ImageStep(1) = "image_downloaded"
    /\ ImageStep(2) = "image_reused"
    /\ soup[1] = soup[2]

StepsOf(call) == {call[i] : i \in 1..Len(call)}

\* C12: a failed image download leaves the src of that image and of no
\* other as it was, the images that were downloaded or found are rewritten
\* to their local names, the document is written with that content, and the
\* call returns True with its URL recorded unless the document write or the
\* append itself failed.
ImageFailureIsLocal ==
    /\ [][(pc = "localize" /\ img_i <= Len(soup) /\ pc' = "localize") =>
             /\ Last(steps') \in {"image_failed", "image_torn"} => soup' = soup
             /\ Last(steps') \in {"image_downloaded", "image_reused"} =>
                    soup' = [soup EXCEPT ![img_i] = LocalSrc(RefName(img_i))]]_vars
    /\ [](pc = "written" /\ success =>
            /\ docs[md_save_path].body = md(soup)
            /\ \A i \in 1..Len(soup) :
                  /\ ImageStep(i) \in {"image_failed", "image_torn"} => soup[i].kind = "remote"
                  /\ ImageStep(i) \in {"image_downloaded", "image_reused"} =>
                        soup[i] = LocalSrc(RefName(i)))
    /\ [](( /\ pc = "ret"
            /\ StepsOf(steps) \cap {"image_failed", "image_torn"} # {}
            /\ StepsOf(steps) \cap {"write_failed", "write_torn", "append_failed"} = {}) =>
            /\ result = "True"
            /\ doc_writes[urls[idx]] # "never"
            /\ urls[idx] \in Lines(ledger))

\* C12, its case: one image of the content failed, the other was
\* downloaded, and the URL was recorded.
RecordedDespiteImageFailure ==
    /\ pc = "ret"
    /\ result = "True"
    /\ "image_failed" \in StepsOf(steps)
    /\ "image_downloaded" \in StepsOf(steps)
    /\ urls[idx] \in Lines(ledger)

\* C13: when the process was killed while process_url was handling a URL
\* that was not recorded, a later run over the same list that got into its
\* loop and has ended has fetched that URL.
CrashedUrlFetchedAgain ==
    (/\ pc = "exited"
     /\ Len(urls) > 0
     /\ crashed_on # NoUrl
     /\ crashed_on \notin Lines(fs_at_start[1])) =>
        <<crashed_on, "fetch">> \in run_events

\* The fields of a record that are neither title nor content.
OptionalFields(fields) == DOMAIN fields \ {"title", "content"}

\* C14 as stated: every optional field whose extraction failed stays None
\* and has no line in the front-matter.
FailedOptionalOmitted ==
    [][(pc = "extracted" /\ pc' = "localize") =>
         \A k \in OptionalFields(extracted_fields) :
            extracted_fields[k] = NoneVal =>
                /\ extracted_fields'[k] = NoneVal
                /\ k \notin DOMAIN Render(FrontMatterOf(extracted_fields'), NoneVal).front]_vars

\* C14, amended: with title and content extracted the call goes past the
\* gate whatever the optional fields gave; a failed optional field stays
\* None and has no line in the front-matter, except date, which is given the
\* current date and has its line; and the call returns True with its
\* document written and its URL recorded unless the document write or the
\* append itself failed.
OptionalFailureIsSoft ==
    /\ [][(/\ pc = "extracted"
           /\ ~Falsy(Get(extracted_fields, "title"))
           /\ ~Falsy(Get(extracted_fields, "content"))) =>
             pc' \in {"localize", "crashed"}]_vars
    /\ [][(pc = "extracted" /\ pc' = "localize") =>
             \A k \in OptionalFields(extracted_fields) :
                extracted_fields[k] = NoneVal =>
                    extracted_fields'[k] =
                        IF k = "date" THEN Str(strftime_date(now)) ELSE NoneVal]_vars
    /\ [][(pc \in {"localize", "render"} /\ pc' \in {"localize", "render", "written"}) =>
             extracted_fields' = extracted_fields]_vars
    /\ [](pc = "written" /\ success =>
            DOMAIN docs[md_save_path].front =
                {k \in DOMAIN extracted_fields \ {"content", "url"} :
                    extracted_fields[k] # NoneVal})
    /\ [](( /\ pc = "ret"
            /\ "gate_ok" \in StepsOf(steps)
            /\ StepsOf(steps) \cap {"write_failed", "write_torn", "append_failed"} = {}) =>
            /\ result = "True"
            /\ doc_writes[urls[idx]] # "never"
            /\ urls[idx] \in Lines(ledger))

\* C14, its case: a document written from a page whose date and cover were
\* not extracted: no cover line, and the current date as its date.
WrittenWithoutOptionals ==
    /\ pc = "written"
    /\ success
    /\ "cover" \in DOMAIN extracted_fields
    /\ extracted_fields["cover"] = NoneVal
    /\ "cover" \notin DOMAIN docs[md_save_path].front
    /\ docs[md_save_path].front["date"] = strftime_date(now)

\* The place of a step in the order of process_url.
Rank(step) ==
    CASE step \in {"fetch_ok", "fetch_failed", "fetch_empty"} -> 1
      [] step = "extract" -> 2
      [] step \in {"gate_ok", "gate_failed"} -> 3
      [] step \in {"image_downloaded", "image_reused", "image_failed", "image_torn",
                   "image_nosrc"} -> 4
      [] step \in {"convert", "convert_raised"} -> 5
      [] step \in {"write_ok", "write_failed", "write_torn", "makedirs_raised"} -> 6
      [] step \in {"append_ok", "append_failed", "not_recorded"} -> 7

\* The steps after which process_url does nothing more.
FinalSteps ==
    {"fetch_failed", "fetch_empty", "gate_failed", "convert_raised", "makedirs_raised",
     "append_ok", "append_failed", "not_recorded"}

ImageSteps(call) == {i \in 1..Len(call) : Rank(call[i]) = 4}

\* C15: the steps of a call come in the order fetch, extraction, gate,
\* images, conversion, document write, ledger append, none left out and none
\* after a failure; a document is written only with the extraction done and
\* every image of the content handled; a call begins only from the loop with
\* the call before it returned, on the URL the loop is at, and the loop goes
\* through the list of urllist.txt one position at a time.
StepsInOrder ==
    /\ [](steps # <<>> =>
            /\ Rank(steps[1]) = 1
            /\ \A i \in 1..(Len(steps) - 1) :
                  /\ steps[i] \notin FinalSteps
                  /\ \/ Rank(steps[i + 1]) = Rank(steps[i]) + 1
                     \/ Rank(steps[i]) = 4 /\ Rank(steps[i + 1]) = 4
                     \/ Rank(steps[i]) = 3 /\ Rank(steps[i + 1]) = 5 /\ Len(soup) = 0)
    /\ [][docs' # docs =>
             /\ pc = "render"
             /\ "extract" \in StepsOf(steps)
             /\ "gate_ok" \in StepsOf(steps)
             /\ Cardinality(ImageSteps(steps)) = Len(soup)
             /\ Last(steps) = "convert"]_vars
    /\ [][(steps' # steps /\ Len(steps') = 1) =>
             /\ pc = "loop"
             /\ steps = <<>>
             /\ urls = urlFile.lines
             /\ idx \in 1..Len(urls)]_vars
    /\ [](pc \in {"fetched", "extracted", "localize", "render", "written"} =>
            url = urls[idx])
    /\ [][(pc = "loop" /\ pc' = "loop") => idx' = idx + 1]_vars
    /\ [][(pc = "ret" /\ pc' # "crashed") =>
             (pc' = "loop" /\ idx' = idx + 1 /\ steps' = <<>>)]_vars

\* C15, its case: the second URL of the list went through every step, after
\* the first had returned.
SecondUrlWentThroughAllSteps ==
    /\ pc = "ret"
    /\ idx = 2
    /\ steps = <<"fetch_ok", "extract", "gate_ok", "image_reused", "image_reused",
                 "convert", "write_ok", "append_ok">>
    /\ Len(ledger) = 2

IsPrefix(s, t) == Len(s) <= Len(t) /\ SubSeq(t, 1, Len(s)) = s

\* C16: every step leaves the lines the ledger had as the first lines of
\* the ledger, in the same order: nothing truncates, rewrites or removes one.
LedgerOnlyGrows ==
    [][IsPrefix(ledger, ledger')]_vars

\* C16, its case: a second run that skipped a recorded URL and added a line
\* after the lines of the first run.
SecondRunAppended ==
    /\ runs = 2
    /\ Len(fs_at_start[1]) = 1
    /\ Len(ledger) = 2
    /\ IsPrefix(fs_at_start[1], ledger)
    /\ urls[1] \in downloaded_urls

\* The characters of a well-formed slug over the alphabet of the titles:
\* lower-case letters, digits and the separator.
SlugChars == {"a", "b", "7", "-"}

Whitespace == {" ", "\t"}

\* A title with each of its whitespace characters turned into a separator.
SeparateWords(name) ==
    [i \in 1..Len(name) |-> IF name[i] \in Whitespace THEN "-" ELSE name[i]]

\* C17: the slug of a title has only lower-case letters, digits and "-",
\* no two adjacent "-", at most 100 characters, and is the slug of the title
\* with every whitespace character written as a separator.
SlugWellFormed ==
    sf_pc = "once" =>
        /\ \A i \in 1..Len(sf_out) : sf_out[i] \in SlugChars
        /\ \A i \in 1..(Len(sf_out) - 1) : ~(sf_out[i] = "-" /\ sf_out[i + 1] = "-")
        /\ Len(sf_out) <= MaxSlugLen
        /\ sf_out = sanitize_filename(SeparateWords(sf_in))

\* C18: the dry run changes no file and counts no change; a file is
\* rewritten only in the second pass, which main enters after its preview
\* and with --force or the answer y or yes; and the number of changed files
\* main prints is at most the number of files its preview listed.
ReplaceOnlyWithConsent ==
    /\ [](r_pc \in {"dry", "preview"} =>
            /\ r_tree = r_tree0
            /\ r_count = 0
            /\ ReturnedCount(TRUE, r_count) = 0)
    /\ [][r_tree' # r_tree =>
             /\ r_pc = "real"
             /\ Len(r_found) > 0
             /\ r_args.force \/ LowerAnswer(r_answer) \in {"y", "yes"}]_vars
    /\ [](r_pc = "done" =>
            /\ r_changed <= Len(r_found)
            /\ r_changed = -1 => r_tree = r_tree0)

\* The image references of a written document's body.
BodyImages(doc) == IF doc.partial THEN <<>> ELSE doc.body.images

\* C19: every reference rewritten to /static/images/<name>, in the content
\* being localized and in the documents on disk, names a file that a
\* download wrote completely.
RewrittenImagesComplete ==
    /\ \A i \in 1..Len(soup) :
          soup[i].kind = "local" =>
              (soup[i].name \in DOMAIN images /\ images[soup[i].name] = "complete")
    /\ \A path \in DOMAIN docs :
          \A i \in 1..Len(BodyImages(docs[path])) :
              BodyImages(docs[path])[i].kind = "local" =>
                  images[BodyImages(docs[path])[i].name] = "complete"

\* C20: the configuration a run works with has, for title and for content,
\* a rule with both its xpath and its attribute key, and process_url
\* extracts both fields from every page it fetched.
AcceptedConfigHasRules ==
    /\ pc = "loop" =>
          \A f \in required_fields :
              \E i \in 1..Len(config) : config[i].name = f /\ CompleteRule(config[i])
    /\ pc = "extracted" => required_fields \subseteq DOMAIN extracted_fields

=============================================================================
